---- MODULE Spec2Model ----
(***************************************************************************)
(* GOAD v1.0 genetic algorithm (goad_v1/ga/genetic_algorithm.py).          *)
(*                                                                         *)
(* A genome is a Python dict whose 'position', 'orientation' and           *)
(* 'torsions' entries are references to numpy arrays.  dict.copy() and     *)
(* list.copy() are shallow, and numpy's += and a[i] = v write in place, so *)
(* the arrays live in a heap (address -> value) and a genome holds         *)
(* addresses.  'energy' and 'structure' are plain dict entries.            *)
(***************************************************************************)
EXTENDS Integers, Sequences, FiniteSets, TLC

VARIABLES
    pc,                \* position of run(): constructed, evaluate, reproduce, results, done, raised
    population_size,   \* self.population_size
    generations,       \* self.generations
    elite_size,        \* self.elite_size
    n_torsions,        \* self.n_torsions
    calculator,        \* self.calculator (which stub was injected)
    surface_energy,    \* self.surface_energy
    molecule_energy,   \* self.molecule_energy
    gen,               \* loop variable of run()
    population,        \* self.population: sequence of genomes
    heap,              \* the numpy arrays the genomes refer to
    fitness_history,   \* self.fitness_history
    best_individual,   \* self.best_individual
    best_energy,       \* self.best_energy
    gen_log,           \* the (Best, Overall best) pairs logged per generation
    results,           \* the dict run() returns
    gui,               \* GAWindow: running, its buttons, its thread, the stop logged
    geo                \* the call under study, outside a run: its arguments and result

vars == <<pc, population_size, generations, elite_size, n_torsions, calculator,
          surface_energy, molecule_energy, gen, population, heap,
          fitness_history, best_individual, best_energy, gen_log, results,
          gui, geo>>

\* the state of the GeneticAlgorithm object and of its run()
ga_vars == <<pc, population_size, generations, elite_size, n_torsions, calculator,
             surface_energy, molecule_energy, gen, population, heap,
             fitness_history, best_individual, best_energy, gen_log, results>>

config == <<population_size, generations, elite_size, n_torsions, calculator,
            surface_energy, molecule_energy>>

(***************************************************************************)
(* Bounds of the model and the inputs it enumerates.                       *)
(***************************************************************************)
MaxPop == 5
MaxGen == 2
MaxElite == 6
MaxTorsions == 1
\* at most this many children are bred over a whole run
MaxChildren == 2

\* (surface_energy, molecule_energy) pairs handed to the constructor
RefEnergies == {<<-3, -1>>}
\* values np.random.uniform draws for a new genome
InitPositions == <<(<<1, -1, 5>>), (<<0, 0, 3>>)>>
InitOrientations == {<<0, 90, 350>>}
InitTorsionAngles == {350}
\* values np.random.normal draws in a mutation
PositionNoise == {<<0, 1, -1>>}
OrientationNoise == {<<-10, 0, 10>>}
TorsionNoise == {20}
\* the atoms of self.surface and of self.molecule, in their order
SurfaceAtoms == <<"s0", "s1", "s2">>
MoleculeAtoms == <<"m0", "m1">>
\* self.molecule as the TorsionHandler reads it: positions in half Angstroms
GaMolecule == [positions |-> <<(<<0, 0, 0>>), (<<0, 0, 3>>)>>]
\* calculator stubs: every call fails; constant energy; energy from the
\* molecule's height, failing for one geometry
Calculators == {"fail", "const", "height"}
ConstEnergy == -2
FailingHeight == 4

(***************************************************************************)
(* Program constants.                                                      *)
(***************************************************************************)
\* float('inf'), the initial best_energy
Inf == 1000000
\* the energy returned for a failed calculation
Penalty == 1000
TournamentSize == 5

None == <<>>
Some(x) == <<x>>
Val(o) == o[1]

Min(a, b) == IF a < b THEN a ELSE b
Range(s) == {s[i] : i \in DOMAIN s}

(***************************************************************************)
(* The heap of numpy arrays.                                               *)
(***************************************************************************)
MaxOf(S) == CHOOSE m \in S : \A x \in S : x <= m

\* the address np.array / ndarray.copy() / np.zeros gives a new array
NewAddr(hp) == IF DOMAIN hp = {} THEN 1 ELSE MaxOf(DOMAIN hp) + 1

Store(hp, a, v) == [x \in (DOMAIN hp) \cup {a} |-> IF x = a THEN v ELSE hp[x]]

Addrs(ind) == {ind.position, ind.orientation, ind.torsions}

\* the values of a genome's three gene arrays
Genes(ind, hp) == <<hp[ind.position], hp[ind.orientation], hp[ind.torsions]>>

\* arrays no dict refers to any more are freed (reference counting)
Collect(hp, pop, best) ==
    LET live == UNION ({Addrs(pop[i]) : i \in DOMAIN pop}
                       \cup {Addrs(best[i]) : i \in DOMAIN best})
    IN  [a \in (DOMAIN hp) \cap live |-> hp[a]]

Vec3Add(u, v) == <<u[1] + v[1], u[2] + v[2], u[3] + v[3]>>
Vec3Mod360(u) == <<u[1] % 360, u[2] % 360, u[3] % 360>>
Vec3Sub(u, v) == <<u[1] - v[1], u[2] - v[2], u[3] - v[3]>>

(***************************************************************************)
(* TorsionHandler, as far as a GA evaluation enters it.                    *)
(***************************************************************************)
\* np.matmul raises ValueError for an operand without dimensions
matmul_raises(ndim1, ndim2) == ndim1 = 0 \/ ndim2 = 0

\* R = np.eye(3) + sin_a * K + (1 - cos_a) @ (K @ K): K @ K is a 3x3 array
\* (ndim 2), the left operand (1 - cos_a) of the first @ a numpy scalar
\* (ndim 0), whatever the axis and the angle
rotation_matrix_axis_angle(axis, angle) == [raised |-> matmul_raises(0, 2)]

\* Python indices of the atoms
AtomIndices(atoms) == 0 .. Len(atoms.positions) - 1
PositionOf(atoms, i) == atoms.positions[i + 1]

DistanceSquared(u, v) ==
    (u[1] - v[1]) * (u[1] - v[1]) + (u[2] - v[2]) * (u[2] - v[2])
    + (u[3] - v[3]) * (u[3] - v[3])

\* neighbor_list('ij', atoms, cutoff=1.6): the ordered pairs of distinct
\* atoms closer than 1.6 Angstrom; coordinates count half Angstroms
neighbor_list(atoms) ==
    {p \in AtomIndices(atoms) \X AtomIndices(atoms) :
        /\ p[1] # p[2]
        /\ 100 * DistanceSquared(PositionOf(atoms, p[1]), PositionOf(atoms, p[2])) < 1024}

\* the while loop over to_check, a layer of the search at a time
RECURSIVE expand_rotating(_, _, _, _, _)
expand_rotating(pairs, bond_begin, bond_end, found, to_check) ==
    IF to_check = {} THEN found
    ELSE LET next == {p[2] : p \in {q \in pairs : q[1] \in to_check}}
                     \ ({bond_begin, bond_end} \cup found)
         IN  expand_rotating(pairs, bond_begin, bond_end, found \cup next, next)

\* atoms_to_rotate: the neighbours of bond_end other than bond_begin, then
\* everything found from them without entering bond_begin or bond_end
atoms_to_rotate(atoms, bond_begin, bond_end) ==
    LET pairs == neighbor_list(atoms)
        neighbors_to_rotate ==
            {p[2] : p \in {q \in pairs : q[1] = bond_end /\ q[2] # bond_begin}}
    IN  expand_rotating(pairs, bond_begin, bond_end,
                        neighbors_to_rotate, neighbors_to_rotate)

\* np.linalg.norm(axis) for a bond along a coordinate axis
norm(v) ==
    CHOOSE n \in 0..DistanceSquared(v, <<0, 0, 0>>) :
        n * n = DistanceSquared(v, <<0, 0, 0>>)

Vec3Div(u, c) == <<u[1] \div c, u[2] \div c, u[3] \div c>>

\* axis = positions[bond_end] - positions[bond_begin]; axis / norm(axis)
torsion_axis(atoms, bond_begin, bond_end) ==
    LET axis == Vec3Sub(PositionOf(atoms, bond_end), PositionOf(atoms, bond_begin))
    IN  Vec3Div(axis, norm(axis))

\* [raised, atoms]: the atoms to rotate (atoms_to_rotate) are found without
\* raising; the rotation matrix is built after them and before any position
\* is written, and it raises whatever the axis, so nothing has been rotated
apply_single_torsion(atoms, bond_begin, bond_end, angle_degrees) ==
    LET rotation_matrix ==
            rotation_matrix_axis_angle(torsion_axis(atoms, bond_begin, bond_end),
                                       angle_degrees)
    IN  IF rotation_matrix.raised THEN [raised |-> TRUE]
        ELSE [raised |-> FALSE, atoms |-> atoms]

apply_torsions_unchecked(molecule_copy, torsion_angles, rotatable_bonds) ==
    IF rotatable_bonds = <<>> THEN [raised |-> FALSE, atoms |-> molecule_copy]
    ELSE apply_single_torsion(molecule_copy, rotatable_bonds[1][1],
                              rotatable_bonds[1][2], torsion_angles[1])

\* [raised, atoms]: the early returns hand the copy back untouched; the
\* loop ends at its first bond, whose rotation matrix raises
apply_torsions(molecule_copy, torsion_angles, rotatable_bonds) ==
    IF Len(torsion_angles) # n_torsions
    THEN [raised |-> FALSE, atoms |-> molecule_copy]
    ELSE IF n_torsions = 0 THEN [raised |-> FALSE, atoms |-> molecule_copy]
    ELSE apply_single_torsion(molecule_copy, rotatable_bonds[1][1],
                              rotatable_bonds[1][2], torsion_angles[1])

\* self.rotatable_bonds of the GA's TorsionHandler: n_torsions (begin, end)
ga_rotatable_bonds == [i \in 1..n_torsions |-> <<0, 1>>]

(***************************************************************************)
(* Structure assembly and scoring.                                         *)
(***************************************************************************)
\* the combined Atoms object: the surface, then the molecule placed by the
\* genes as they are when the system is built
create_system(ind, hp) ==
    LET t == IF n_torsions > 0
             THEN apply_torsions(GaMolecule, hp[ind.torsions], ga_rotatable_bonds)
             ELSE [raised |-> FALSE]
    IN  IF t.raised THEN [raised |-> TRUE]
        ELSE [raised |-> FALSE,
              \* system = surface_copy + molecule_copy, no constraint yet
              system |-> [atoms |-> SurfaceAtoms \o MoleculeAtoms,
                          fixed |-> {},
                          position |-> hp[ind.position],
                          orientation |-> hp[ind.orientation],
                          torsions |-> hp[ind.torsions]]]

fixed_indices_lower == 0 .. Len(SurfaceAtoms) - 2

\* fixed_indices = list(range(len(self.surface))), as Python indices
fixed_indices == 0 .. Len(SurfaceAtoms) - 1

\* system.get_potential_energy() with the injected calculator
get_potential_energy(system) ==
    CASE calculator = "fail" -> [raised |-> TRUE]
      [] calculator = "const" -> [raised |-> FALSE, energy |-> ConstEnergy]
      [] calculator = "height" ->
            IF system.position[3] = FailingHeight THEN [raised |-> TRUE]
            ELSE [raised |-> FALSE, energy |-> system.position[3] - 8]

adsorption_energy_wrong(energy) == energy - surface_energy

\* e_ads = energy - (self.surface_energy + self.molecule_energy)
adsorption_energy(energy) == energy - (surface_energy + molecule_energy)

\* [energy, structure]: the value returned and individual['structure'] afterwards
calculate_energy(ind, hp) ==
    LET s == create_system(ind, hp)
        \* system.set_constraint(FixAtoms(indices=fixed_indices))
        system == [s.system EXCEPT !.fixed = fixed_indices]
        e == IF s.raised THEN [raised |-> TRUE] ELSE get_potential_energy(system)
    IN  IF e.raised
        THEN [energy |-> Penalty, structure |-> ind.structure]
        ELSE [energy |-> adsorption_energy(e.energy), structure |-> Some(system)]

needs_evaluation_always(ind) == TRUE

\* if individual['energy'] is None
needs_evaluation(ind) == ind.energy = None

improves_or_ties(e, best) == e <= best

\* if individual['energy'] < self.best_energy
improves(e, best) == e < best

\* the state of the loop of _evaluate_population after individuals 1..i
RECURSIVE evaluate_upto(_, _)
evaluate_upto(i, st) ==
    IF i = 0 THEN st
    ELSE LET s == evaluate_upto(i - 1, st)
             ind == s.population[i]
         IN  IF ~needs_evaluation(ind) THEN s
             ELSE LET r == calculate_energy(ind, heap)
                      scored == [ind EXCEPT !.energy = Some(r.energy),
                                            !.structure = r.structure]
                      better == improves(r.energy, s.best_energy)
                  IN  [population |-> [s.population EXCEPT ![i] = scored],
                       fitness_history |-> Append(s.fitness_history, r.energy),
                       best_energy |-> IF better THEN r.energy ELSE s.best_energy,
                       \* individual.copy(): a new dict, the same arrays
                       best_individual |-> IF better THEN Some(scored)
                                           ELSE s.best_individual]

evaluate_population_but_last ==
    evaluate_upto(MaxOf({0, Len(population) - 1}),
                  [population |-> population, fitness_history |-> fitness_history,
                   best_energy |-> best_energy, best_individual |-> best_individual])

\* for individual in self.population
evaluate_population ==
    evaluate_upto(Len(population),
                  [population |-> population, fitness_history |-> fitness_history,
                   best_energy |-> best_energy, best_individual |-> best_individual])

(***************************************************************************)
(* Selection, crossover and mutation.                                      *)
(***************************************************************************)
Energy(ind) == Val(ind.energy)

\* the place list.sort(key=energy) gives element i: ascending, stable
SortRank(pop, i) ==
    Cardinality({j \in DOMAIN pop : Energy(pop[j]) < Energy(pop[i])})
    + Cardinality({j \in DOMAIN pop : j < i /\ Energy(pop[j]) = Energy(pop[i])})
    + 1

unsorted(pop) == pop

\* self.population.sort(key=lambda x: x['energy'])
sort_by_energy(pop) ==
    [k \in DOMAIN pop |-> pop[CHOOSE i \in DOMAIN pop : SortRank(pop, i) = k]]

keep_worst(pop) ==
    SubSeq(pop, Len(pop) - Min(elite_size, Len(pop)) + 1, Len(pop))

\* self.population[:self.elite_size].copy(): a new list of the same dicts
keep_elite(pop) == SubSeq(pop, 1, Min(elite_size, Len(pop)))

\* np.random.choice(len(self.population), tournament_size, replace=False)
\* raises ValueError when the population is smaller than the sample
select_parent_raises(pop) == Len(pop) < TournamentSize

\* the samples np.random.choice is taken to draw: TournamentSize distinct
\* indices, here always in ascending order
TournamentDraws(pop) ==
    {T \in SUBSET (DOMAIN pop) : Cardinality(T) = TournamentSize}

\* min(tournament, key=energy): the first index of the sample, in its
\* order, whose energy no other index of the sample undercuts
tournament_winner(pop, T) ==
    CHOOSE i \in T :
        /\ \A j \in T : Energy(pop[i]) <= Energy(pop[j])
        /\ \A j \in T : Energy(pop[j]) = Energy(pop[i]) => i <= j

\* the indices _select_parent can return
Winners(pop) == {tournament_winner(pop, T) : T \in TournamentDraws(pop)}

crossover_from_parent2(parent1, parent2, picks, hp) ==
    LET a1 == NewAddr(hp)
        h1 == Store(hp, a1, hp[parent2.position])
        a2 == NewAddr(h1)
        h2 == Store(h1, a2, hp[parent2.orientation])
        a3 == NewAddr(h2)
        h3 == Store(h2, a3, hp[parent2.torsions])
    IN  [child |-> [position |-> a1, orientation |-> a2, torsions |-> a3,
                    energy |-> None, structure |-> None],
         heap |-> h3]

\* _crossover: three new arrays; picks[i] is random() < 0.5 for torsion i
crossover(parent1, parent2, picks, hp) ==
    LET a1 == NewAddr(hp)
        h1 == Store(hp, a1, hp[parent1.position])
        a2 == NewAddr(h1)
        h2 == Store(h1, a2, hp[parent2.orientation])
        a3 == NewAddr(h2)
        h3 == Store(h2, a3, [i \in 1..n_torsions |->
                                IF picks[i] THEN hp[parent1.torsions][i]
                                ELSE hp[parent2.torsions][i]])
    IN  [child |-> [position |-> a1, orientation |-> a2, torsions |-> a3,
                    energy |-> None, structure |-> None],
         heap |-> h3]

keep_scores(individual) == individual

\* individual['energy'] = None; individual['structure'] = None
reset_scores(individual) == [individual EXCEPT !.energy = None, !.structure = None]

\* _mutate(individual) for one draw m of mutation_choice and of the noise
mutate(individual, m, hp) ==
    LET reset == reset_scores(individual)
    IN  CASE m.class = "position" ->
               \* individual['position'] += noise: written into the array
               [child |-> reset,
                heap |-> Store(hp, individual.position,
                               Vec3Add(hp[individual.position], m.noise))]
          [] m.class = "orientation" ->
               \* += writes into the array; % 360 builds a new one
               LET moved == Vec3Add(hp[individual.orientation], m.noise)
                   h1 == Store(hp, individual.orientation, moved)
                   a == NewAddr(h1)
               IN  [child |-> [reset EXCEPT !.orientation = a],
                    heap |-> Store(h1, a, Vec3Mod360(moved))]
          [] m.class = "torsions" ->
               \* both statements write element i of the array
               LET old == hp[individual.torsions]
               IN  [child |-> reset,
                    heap |-> Store(hp, individual.torsions,
                                   [i \in 1..n_torsions |->
                                       IF m.picks[i]
                                       THEN (old[i] + m.noise[i]) % 360
                                       ELSE old[i]])]

MutationDraws ==
    {[class |-> "position", noise |-> n] : n \in PositionNoise}
    \cup {[class |-> "orientation", noise |-> n] : n \in OrientationNoise}
    \cup {[class |-> "torsions", picks |-> p, noise |-> n] :
            p \in [1..n_torsions -> BOOLEAN], n \in [1..n_torsions -> TorsionNoise]}

\* one pass of the while loop: every [new_population, heap] it can leave
breed(pop, st) ==
    {LET c == crossover(pop[p1], pop[p2], picks, st.heap)
     IN  [new_population |-> Append(st.new_population, c.child), heap |-> c.heap] :
        p1 \in Winners(pop), p2 \in Winners(pop),
        picks \in [1..n_torsions -> BOOLEAN]}
    \cup
    {LET c == mutate(pop[p], m, st.heap)
     IN  [new_population |-> Append(st.new_population, c.child), heap |-> c.heap] :
        p \in Winners(pop), m \in MutationDraws}

population_full_late(new_population) == Len(new_population) > population_size

\* the while condition is false: not len(new_population) < self.population_size
population_full(new_population) == Len(new_population) >= population_size

\* while len(new_population) < self.population_size
RECURSIVE fill(_, _)
fill(pop, S) ==
    IF \A st \in S : population_full(st.new_population) THEN S
    ELSE fill(pop, UNION {IF population_full(st.new_population) THEN {st}
                          ELSE breed(pop, st) : st \in S})

(***************************************************************************)
(* run()                                                                   *)
(***************************************************************************)
\* the children a run of this configuration breeds when nothing raises
ChildrenBred(p, g, e) == (p - Min(e, p)) * g

\* GAWindow before _run_ga, and no call under study
GuiIdle == [running |-> FALSE, stop_button |-> "disabled",
            next_button |-> "disabled", thread |-> "none", stopped |-> FALSE]
GeoIdle == [op |-> "none"]

\* the state after GeneticAlgorithm.__init__, which accepts every value;
\* range(generations) is empty for any generations <= 0
Constructed ==
    /\ pc = "constructed"
    /\ population_size \in 0..MaxPop
    /\ generations \in 0..MaxGen
    /\ elite_size \in 0..MaxElite
    /\ \/ population_size < TournamentSize
       \/ ChildrenBred(population_size, generations, elite_size) <= MaxChildren
    /\ n_torsions \in 0..MaxTorsions
    /\ calculator \in Calculators
    /\ \E ref \in RefEnergies : surface_energy = ref[1] /\ molecule_energy = ref[2]
    /\ gen = 0
    /\ population = <<>>
    /\ heap = <<>>
    /\ fitness_history = <<>>
    /\ best_individual = None
    /\ best_energy = Inf
    /\ gen_log = <<>>
    /\ results = None

\* a GeneticAlgorithm constructed outside the GA window
Init ==
    /\ Constructed
    /\ gui = GuiIdle
    /\ geo = GeoIdle

\* the draws of _initialize_population: the first k genomes get the first
\* position, the others the second
InitialDraws ==
    {[i \in 1..population_size |->
        [position |-> InitPositions[IF i <= k THEN 1 ELSE 2],
         orientation |-> o, torsions |-> t]] :
        k \in 0..population_size,
        o \in InitOrientations, t \in [1..n_torsions -> InitTorsionAngles]}

\* run() up to the main loop: _initialize_population
InitializePopulation ==
    /\ pc = "constructed"
    /\ \E d \in InitialDraws :
         /\ population' = population \o
                [i \in 1..population_size |->
                    [position |-> 3 * i - 2, orientation |-> 3 * i - 1,
                     torsions |-> 3 * i, energy |-> None, structure |-> None]]
         /\ heap' = [a \in 1..(3 * population_size) |->
                        LET i == (a + 2) \div 3
                        IN  CASE a % 3 = 1 -> d[i].position
                              [] a % 3 = 2 -> d[i].orientation
                              [] OTHER -> d[i].torsions]
    /\ pc' = IF gen < generations THEN "evaluate" ELSE "results"
    /\ UNCHANGED <<gui, geo, config, gen, fitness_history, best_individual, best_energy,
                   gen_log, results>>

MinOfSeq(s) == CHOOSE m \in Range(s) : \A x \in Range(s) : m <= x

\* self.fitness_history[-self.population_size:]
LastEvaluations(h) ==
    IF population_size = 0 \/ population_size >= Len(h) THEN h
    ELSE SubSeq(h, Len(h) - population_size + 1, Len(h))

\* one pass of the main loop up to the log line: _evaluate_population, then
\* best_gen = min(...) (the GUI constructs the GA with verbose=True)
EvaluatePopulation ==
    /\ pc = "evaluate"
    /\ LET s == evaluate_population
           last == LastEvaluations(s.fitness_history)
       IN  /\ population' = s.population
           /\ fitness_history' = s.fitness_history
           /\ best_energy' = s.best_energy
           /\ best_individual' = s.best_individual
           \* min() of an empty sequence raises ValueError, which leaves run()
           /\ gen_log' = IF last = <<>> THEN gen_log
                         ELSE Append(gen_log, [best_gen |-> MinOfSeq(last),
                                               overall |-> s.best_energy])
           /\ pc' = IF last = <<>> THEN "raised" ELSE "reproduce"
    /\ UNCHANGED <<gui, geo, config, gen, heap, results>>

\* _selection_crossover_mutation, then the next pass or the end of the loop
SelectionCrossoverMutation ==
    /\ pc = "reproduce"
    /\ LET sorted == sort_by_energy(population)
           elite == keep_elite(sorted)
       IN  /\ ~(Len(elite) < population_size /\ select_parent_raises(sorted))
           /\ \E st \in fill(sorted, {[new_population |-> elite, heap |-> heap]}) :
                /\ population' = st.new_population
                /\ heap' = Collect(st.heap, st.new_population, best_individual)
    /\ gen' = gen + 1
    /\ pc' = IF gen + 1 < generations THEN "evaluate" ELSE "results"
    /\ UNCHANGED <<gui, geo, config, fitness_history, best_individual, best_energy,
                   gen_log, results>>

\* _selection_crossover_mutation when the first _select_parent raises: the
\* ValueError leaves run(); the list has been sorted in place
SelectionCrossoverMutationRaises ==
    /\ pc = "reproduce"
    /\ LET sorted == sort_by_energy(population)
       IN  /\ Len(keep_elite(sorted)) < population_size
           /\ select_parent_raises(sorted)
           /\ population' = sorted
    /\ pc' = "raised"
    /\ UNCHANGED <<gui, geo, config, gen, heap, fitness_history, best_individual,
                   best_energy, gen_log, results>>

\* return self._get_results()
GetResults ==
    /\ pc = "results"
    /\ results' = Some([best_individual |-> best_individual,
                        best_energy |-> best_energy,
                        best_structure |-> IF best_individual # None
                                           THEN Val(best_individual).structure
                                           ELSE None,
                        fitness_history |-> fitness_history,
                        generations |-> generations,
                        population_size |-> population_size])
    /\ pc' = "done"
    /\ UNCHANGED <<gui, geo, config, gen, population, heap, fitness_history,
                   best_individual, best_energy, gen_log>>

Next ==
    \/ InitializePopulation
    \/ EvaluatePopulation
    \/ SelectionCrossoverMutation
    \/ SelectionCrossoverMutationRaises
    \/ GetResults

Spec == Init /\ [][Next]_vars

(***************************************************************************)
(* The end-to-end scenario: four genomes, two generations, a rigid         *)
(* molecule, a calculator returning ConstEnergy for every structure and    *)
(* reference energies 0, under every elite_size.                           *)
(***************************************************************************)
ScenarioConfig ==
    /\ population_size = 4
    /\ generations = 2
    /\ n_torsions = 0
    /\ calculator = "const"
    /\ surface_energy = 0
    /\ molecule_energy = 0

InitScenario ==
    /\ pc = "constructed"
    /\ gui = GuiIdle
    /\ geo = GeoIdle
    /\ ScenarioConfig
    /\ elite_size \in 0..MaxElite
    /\ gen = 0
    /\ population = <<>>
    /\ heap = <<>>
    /\ fitness_history = <<>>
    /\ best_individual = None
    /\ best_energy = Inf
    /\ gen_log = <<>>
    /\ results = None

SpecScenario == InitScenario /\ [][Next]_vars

(***************************************************************************)
(* The GA window: _run_ga constructs the GeneticAlgorithm from the         *)
(* spinboxes and starts run() in a thread; the Stop button calls _stop_ga. *)
(***************************************************************************)
\* the state _run_ga leaves: the thread started, the Stop button enabled
InitGUI ==
    /\ Constructed
    /\ gui = [running |-> TRUE, stop_button |-> "normal",
              next_button |-> "disabled", thread |-> "alive", stopped |-> FALSE]
    /\ geo = GeoIdle

\* _stop_ga, the command of the Stop button: it writes the window's flag
\* and logs; run() reads no flag
StopGA ==
    /\ gui.stop_button = "normal"
    /\ gui' = [gui EXCEPT !.running = FALSE, !.stop_button = "disabled",
                          !.stopped = TRUE]
    /\ UNCHANGED <<ga_vars, geo>>

\* _run_ga_thread once self.ga.run() has returned or raised
RunGaThreadEnds ==
    /\ gui.thread = "alive"
    /\ pc \in {"done", "raised"}
    /\ gui' = [gui EXCEPT !.running = FALSE, !.stop_button = "disabled",
                          !.thread = "ended",
                          !.next_button = IF pc = "done" THEN "normal" ELSE @]
    /\ UNCHANGED <<ga_vars, geo>>

NextGUI ==
    \/ Next
    \/ StopGA
    \/ RunGaThreadEnds

SpecGUI == InitGUI /\ [][NextGUI]_vars

(***************************************************************************)
(* The geometry of _create_system, on its own: atoms are their masses and  *)
(* positions, angles are multiples of 90 degrees and coordinates integers, *)
(* so that every sine, cosine and centre of mass is exact.                 *)
(***************************************************************************)
\* molecules with an integer centre of mass: a homonuclear diatomic, a
\* heteronuclear diatomic and a bent heteronuclear triatomic
Molecules ==
    {[masses |-> <<2, 2>>, positions |-> <<(<<0, 0, 0>>), (<<0, 0, 2>>)>>],
     [masses |-> <<1, 3>>, positions |-> <<(<<0, 0, 0>>), (<<0, 0, 4>>)>>],
     [masses |-> <<1, 1, 2>>,
      positions |-> <<(<<0, 0, 0>>), (<<4, 0, 0>>), (<<0, 4, 0>>)>>]}
GenomePositions == {<<0, 0, 5>>, <<2, -1, 3>>}
RightAngles == {0, 90, 180, 270}
EulerAngles == RightAngles \X RightAngles \X RightAngles
UnitAxes == {<<1, 0, 0>>, <<0, 1, 0>>, <<0, 0, 1>>, <<0, 0, -1>>}

\* np.cos(np.deg2rad(d)) and np.sin(np.deg2rad(d)) at a multiple of 90
cos_deg(d) == CASE d % 360 = 0 -> 1 [] d % 360 = 180 -> -1 [] OTHER -> 0
sin_deg(d) == CASE d % 360 = 90 -> 1 [] d % 360 = 270 -> -1 [] OTHER -> 0

Vec3Scale(c, u) == <<c * u[1], c * u[2], c * u[3]>>

RECURSIVE Vec3Sum(_)
Vec3Sum(vs) ==
    IF vs = <<>> THEN <<0, 0, 0>>
    ELSE Vec3Add(vs[1], Vec3Sum(Tail(vs)))

RECURSIVE SumSeq(_)
SumSeq(xs) == IF xs = <<>> THEN 0 ELSE xs[1] + SumSeq(Tail(xs))

\* A @ B for 3x3 arrays, and A.T
MatMul(A, B) ==
    [i \in 1..3 |-> [j \in 1..3 |->
        A[i][1] * B[1][j] + A[i][2] * B[2][j] + A[i][3] * B[3][j]]]
Transpose(A) == [i \in 1..3 |-> [j \in 1..3 |-> A[j][i]]]
\* v @ A for a row vector v
RowMat(v, A) == [j \in 1..3 |-> v[1] * A[1][j] + v[2] * A[2][j] + v[3] * A[3][j]]

get_centroid(atoms) ==
    LET total == Vec3Sum(atoms.positions)
        n == Len(atoms.positions)
    IN  <<total[1] \div n, total[2] \div n, total[3] \div n>>

\* ase Atoms.get_center_of_mass(): masses @ positions / masses.sum()
get_center_of_mass(atoms) ==
    LET weighted == Vec3Sum([i \in DOMAIN atoms.positions |->
                                Vec3Scale(atoms.masses[i], atoms.positions[i])])
        total == SumSeq(atoms.masses)
    IN  <<weighted[1] \div total, weighted[2] \div total, weighted[3] \div total>>

\* ase Atoms.translate(displacement)
translate(atoms, displacement) ==
    [atoms EXCEPT !.positions =
        [i \in DOMAIN atoms.positions |-> Vec3Add(atoms.positions[i], displacement)]]

\* _apply_rotation: R = Rz @ Ry @ Rx, applied about the centre of mass
apply_rotation(atoms, euler_angles) ==
    LET alpha == euler_angles[1]
        beta == euler_angles[2]
        gamma == euler_angles[3]
        Rx == <<(<<1, 0, 0>>),
                (<<0, cos_deg(alpha), -sin_deg(alpha)>>),
                (<<0, sin_deg(alpha), cos_deg(alpha)>>)>>
        Ry == <<(<<cos_deg(beta), 0, sin_deg(beta)>>),
                (<<0, 1, 0>>),
                (<<-sin_deg(beta), 0, cos_deg(beta)>>)>>
        Rz == <<(<<cos_deg(gamma), -sin_deg(gamma), 0>>),
                (<<sin_deg(gamma), cos_deg(gamma), 0>>),
                (<<0, 0, 1>>)>>
        R == MatMul(MatMul(Rz, Ry), Rx)
        com == get_center_of_mass(atoms)
    IN  [atoms EXCEPT !.positions =
            [i \in DOMAIN atoms.positions |->
                LET relative_pos == Vec3Sub(atoms.positions[i], com)
                    rotated_pos == RowMat(relative_pos, Transpose(R))
                IN  Vec3Add(rotated_pos, com)]]

\* _create_system for a rigid molecule: the copy translated, then rotated
position_molecule(molecule, position, orientation) ==
    LET molecule_copy == translate(molecule,
                                   Vec3Sub(position, get_center_of_mass(molecule)))
    IN  apply_rotation(molecule_copy, orientation)

\* no GA run: one geometry call is studied per behaviour
InitGeometry ==
    /\ pc = "constructed"
    /\ ScenarioConfig
    /\ elite_size = 0
    /\ gen = 0
    /\ population = <<>>
    /\ heap = <<>>
    /\ fitness_history = <<>>
    /\ best_individual = None
    /\ best_energy = Inf
    /\ gen_log = <<>>
    /\ results = None
    /\ gui = GuiIdle
    /\ geo = GeoIdle

\* _create_system places a rigid molecule for a genome
CreateSystemGeometry ==
    /\ geo = GeoIdle
    /\ \E m \in Molecules, p \in GenomePositions, o \in EulerAngles :
          geo' = [op |-> "create_system", molecule |-> m, position |-> p,
                  orientation |-> o, result |-> position_molecule(m, p, o)]
    /\ UNCHANGED <<ga_vars, gui>>

\* _apply_rotation on a molecule where it stands
ApplyRotation ==
    /\ geo = GeoIdle
    /\ \E m \in Molecules, o \in EulerAngles :
          geo' = [op |-> "apply_rotation", atoms |-> m, euler_angles |-> o,
                  result |-> apply_rotation(m, o)]
    /\ UNCHANGED <<ga_vars, gui>>

\* _rotation_matrix_axis_angle for a unit axis and an angle
RotationMatrixAxisAngle ==
    /\ geo = GeoIdle
    /\ \E axis \in UnitAxes, angle \in RightAngles :
          geo' = [op |-> "rotation_matrix_axis_angle", axis |-> axis,
                  angle |-> angle,
                  result |-> rotation_matrix_axis_angle(axis, angle)]
    /\ UNCHANGED <<ga_vars, gui>>

NextGeometry ==
    \/ CreateSystemGeometry
    \/ ApplyRotation
    \/ RotationMatrixAxisAngle

SpecGeometry == InitGeometry /\ [][NextGeometry]_vars

(***************************************************************************)
(* _crossover on its own: two scored parents drawn from bounded sets.      *)
(***************************************************************************)
ParentPositions == {<<0, 0, 3>>, <<1, -1, 5>>}
ParentOrientations == {<<0, 90, 350>>, <<10, 20, 30>>}
ParentTorsionAngles == {350, 40}

\* the genes of the two parents
ParentDraws ==
    {[position |-> p, orientation |-> o, torsions |-> t] :
        p \in ParentPositions, o \in ParentOrientations,
        t \in [1..n_torsions -> ParentTorsionAngles]}

\* a population of two scored genomes, about to reproduce
InitCrossover ==
    /\ pc = "reproduce"
    /\ population_size = 2
    /\ generations = 1
    /\ elite_size = 0
    /\ n_torsions \in 0..MaxTorsions
    /\ calculator = "const"
    /\ surface_energy = 0
    /\ molecule_energy = 0
    /\ gen = 0
    /\ \E d1 \in ParentDraws, d2 \in ParentDraws :
          /\ heap = <<d1.position, d1.orientation, d1.torsions,
                      d2.position, d2.orientation, d2.torsions>>
          /\ population =
                [i \in 1..2 |->
                    LET ind == [position |-> 3 * i - 2, orientation |-> 3 * i - 1,
                                torsions |-> 3 * i, energy |-> None,
                                structure |-> None]
                        r == calculate_energy(ind, heap)
                    IN  [ind EXCEPT !.energy = Some(r.energy),
                                    !.structure = r.structure]]
    /\ fitness_history = <<>>
    /\ best_individual = None
    /\ best_energy = Inf
    /\ gen_log = <<>>
    /\ results = None
    /\ gui = GuiIdle
    /\ geo = GeoIdle

\* child = self._crossover(parent1, parent2) for one draw of the torsion picks
CrossoverCall ==
    /\ geo = GeoIdle
    /\ \E picks \in [1..n_torsions -> BOOLEAN] :
          LET c == crossover(population[1], population[2], picks, heap)
          IN  /\ geo' = [op |-> "crossover", picks |-> picks,
                         parent1 |-> Genes(population[1], heap),
                         parent2 |-> Genes(population[2], heap),
                         child |-> c.child]
              /\ heap' = c.heap
    /\ UNCHANGED <<gui, config, pc, gen, population, fitness_history,
                   best_individual, best_energy, gen_log, results>>

NextCrossover == CrossoverCall

SpecCrossover == InitCrossover /\ [][NextCrossover]_vars

(***************************************************************************)
(* TorsionHandler on its own: molecules with bonds of 1.5 Angstrom along   *)
(* the coordinate axes, in half Angstroms.                                 *)
(***************************************************************************)
\* a chain of four atoms, a chain with a branch, a four-ring with a
\* substituent, and a chain with a detached atom
TorsionMolecules ==
    {[positions |-> <<(<<0, 0, 0>>), (<<3, 0, 0>>), (<<6, 0, 0>>), (<<9, 0, 0>>)>>],
     [positions |-> <<(<<0, 0, 0>>), (<<3, 0, 0>>), (<<6, 0, 0>>), (<<9, 0, 0>>),
                      (<<6, 3, 0>>)>>],
     [positions |-> <<(<<0, 0, 0>>), (<<3, 0, 0>>), (<<3, 3, 0>>), (<<0, 3, 0>>),
                      (<<-3, 0, 0>>)>>],
     [positions |-> <<(<<0, 0, 0>>), (<<3, 0, 0>>), (<<6, 0, 0>>), (<<9, 9, 9>>)>>]}
TorsionAngleValues == {0, 90}

\* the lists of at most MaxTorsions + 1 angles
AngleLists == UNION {[1..k -> TorsionAngleValues] : k \in 0 .. MaxTorsions + 1}

\* a TorsionHandler with n_torsions rotatable bonds, no call made yet
InitTorsion ==
    /\ pc = "constructed"
    /\ population_size = 0
    /\ generations = 0
    /\ elite_size = 0
    /\ n_torsions \in 0..MaxTorsions
    /\ calculator = "const"
    /\ surface_energy = 0
    /\ molecule_energy = 0
    /\ gen = 0
    /\ population = <<>>
    /\ heap = <<>>
    /\ fitness_history = <<>>
    /\ best_individual = None
    /\ best_energy = Inf
    /\ gen_log = <<>>
    /\ results = None
    /\ gui = GuiIdle
    /\ geo = GeoIdle

\* apply_torsions(molecule_copy, torsion_angles)
ApplyTorsionsCall ==
    /\ geo = GeoIdle
    /\ \E m \in TorsionMolecules, angles \in AngleLists :
        \E bonds \in [1..n_torsions -> neighbor_list(m)] :
          geo' = [op |-> "apply_torsions", molecule |-> m,
                  rotatable_bonds |-> bonds, torsion_angles |-> angles,
                  result |-> apply_torsions(m, angles, bonds)]
    /\ UNCHANGED <<ga_vars, gui>>

\* _apply_single_torsion(atoms, bond_begin, bond_end, angle_degrees)
ApplySingleTorsionCall ==
    /\ geo = GeoIdle
    /\ \E m \in TorsionMolecules, angle \in TorsionAngleValues :
        \E bond \in neighbor_list(m) :
          geo' = [op |-> "apply_single_torsion", atoms |-> m,
                  bond_begin |-> bond[1], bond_end |-> bond[2],
                  angle_degrees |-> angle,
                  axis |-> torsion_axis(m, bond[1], bond[2]),
                  selected |-> atoms_to_rotate(m, bond[1], bond[2]),
                  result |-> apply_single_torsion(m, bond[1], bond[2], angle)]
    /\ UNCHANGED <<ga_vars, gui>>

NextTorsion ==
    \/ ApplyTorsionsCall
    \/ ApplySingleTorsionCall

SpecTorsion == InitTorsion /\ [][NextTorsion]_vars

(***************************************************************************)
(* The generation log, from initial populations in which any genome can    *)
(* be the best one: five genomes at two heights, two generations.          *)
(***************************************************************************)
LogPositions == {<<0, 0, 5>>, <<0, 0, 6>>}

\* the state _initialize_population leaves, before the first generation
InitLog ==
    /\ pc = "evaluate"
    /\ population_size = 5
    /\ generations = 2
    /\ elite_size \in 1..4
    /\ population_size - elite_size <= MaxChildren
    /\ n_torsions = 0
    /\ calculator = "height"
    /\ \E ref \in RefEnergies : surface_energy = ref[1] /\ molecule_energy = ref[2]
    /\ gen = 0
    /\ \E ps \in [1..5 -> LogPositions], o \in InitOrientations :
          /\ heap = [a \in 1..15 |->
                        CASE a % 3 = 1 -> ps[(a + 2) \div 3]
                          [] a % 3 = 2 -> o
                          [] OTHER -> <<>>]
          /\ population =
                [i \in 1..5 |->
                    [position |-> 3 * i - 2, orientation |-> 3 * i - 1,
                     torsions |-> 3 * i, energy |-> None, structure |-> None]]
    /\ fitness_history = <<>>
    /\ best_individual = None
    /\ best_energy = Inf
    /\ gen_log = <<>>
    /\ results = None
    /\ gui = GuiIdle
    /\ geo = GeoIdle

NextLog ==
    \/ EvaluatePopulation
    \/ SelectionCrossoverMutation
    \/ GetResults

SpecLog == InitLog /\ [][NextLog]_vars

(***************************************************************************)
(* _mutate on its own: the tournament may return the same parent for       *)
(* several children of one reproduce step.                                 *)
(***************************************************************************)
MaxMutations == 2

\* one scored genome with wrapped angles, about to be mutated
InitMutation ==
    /\ pc = "reproduce"
    /\ population_size = 1
    /\ generations = 1
    /\ elite_size = 0
    /\ n_torsions \in 0..MaxTorsions
    /\ calculator = "const"
    /\ surface_energy = 0
    /\ molecule_energy = 0
    /\ gen = 0
    /\ \E d \in ParentDraws :
          /\ heap = <<d.position, d.orientation, d.torsions>>
          /\ population =
                <<LET ind == [position |-> 1, orientation |-> 2, torsions |-> 3,
                              energy |-> None, structure |-> None]
                      r == calculate_energy(ind, heap)
                  IN  [ind EXCEPT !.energy = Some(r.energy),
                                  !.structure = r.structure]>>
    /\ fitness_history = <<>>
    /\ best_individual = None
    /\ best_energy = Inf
    /\ gen_log = <<>>
    /\ results = None
    /\ gui = GuiIdle
    /\ geo = GeoIdle

\* child = self._mutate(parent.copy()) for one draw of the mutation
MutateCall ==
    /\ geo = GeoIdle \/ (geo.op = "mutate" /\ geo.calls < MaxMutations)
    /\ \E m \in MutationDraws :
          LET parent == population[1]
              c == mutate(parent, m, heap)
          IN  /\ geo' = [op |-> "mutate",
                         calls |-> IF geo = GeoIdle THEN 1 ELSE geo.calls + 1,
                         class |-> m.class,
                         before |-> Genes(parent, heap),
                         child |-> c.child]
              /\ heap' = c.heap
    /\ UNCHANGED <<gui, config, pc, gen, population, fitness_history,
                   best_individual, best_energy, gen_log, results>>

NextMutation == MutateCall

SpecMutation == InitMutation /\ [][NextMutation]_vars

(***************************************************************************)
(* _initialize_population on its own: the position drawn for one genome,   *)
(* lengths in half Angstroms.                                              *)
(***************************************************************************)
\* self.search_radius = 10.0, self.max_height = 8.0, self.surface_buffer = 1.5
search_radius == 20
max_height == 16
surface_buffer == 3

\* slabs whose mean x and y are whole numbers
InitSurfaces ==
    {[positions |-> <<(<<0, 0, 0>>), (<<4, 0, 0>>), (<<0, 4, 4>>), (<<4, 4, 4>>)>>],
     [positions |-> <<(<<-3, 1, 2>>), (<<3, 1, 2>>), (<<-3, 5, 6>>), (<<3, 5, 7>>)>>]}

\* values of np.random.uniform(-search_radius, search_radius), a half-open
\* interval, and of np.random.uniform(surface_buffer, max_height)
LateralDraws == {-search_radius, -15, 0, 15, search_radius - 1}
HeightDraws == {surface_buffer, 8, max_height - 1}

\* _analyze_surface: z_coords.max() and positions[:, :2].mean(axis=0)
analyze_surface(surface) ==
    LET total == Vec3Sum(surface.positions)
        n == Len(surface.positions)
        centre == <<total[1] \div n, total[2] \div n>>
    IN  [surface_z_max |-> MaxOf({surface.positions[i][3] : i \in DOMAIN surface.positions}),
         surface_center_xy |-> <<centre[1], centre[2]>>]

\* the position of one genome of _initialize_population
initial_position(surface, dx, dy, dz) ==
    LET a == analyze_surface(surface)
    IN  <<a.surface_center_xy[1] + dx, a.surface_center_xy[2] + dy,
          a.surface_z_max + dz>>

\* a GeneticAlgorithm for one of the slabs, population not yet drawn
InitPlacement ==
    /\ pc = "constructed"
    /\ population_size = 1
    /\ generations = 1
    /\ elite_size = 0
    /\ n_torsions = 0
    /\ calculator = "const"
    /\ surface_energy = 0
    /\ molecule_energy = 0
    /\ gen = 0
    /\ population = <<>>
    /\ heap = <<>>
    /\ fitness_history = <<>>
    /\ best_individual = None
    /\ best_energy = Inf
    /\ gen_log = <<>>
    /\ results = None
    /\ gui = GuiIdle
    /\ geo \in {[op |-> "none", surface |-> sf] : sf \in InitSurfaces}

\* one pass of the loop of _initialize_population, as far as the position
DrawPosition ==
    /\ geo.op = "none"
    /\ \E dx \in LateralDraws, dy \in LateralDraws, dz \in HeightDraws :
          geo' = [op |-> "initialize_population", surface |-> geo.surface,
                  position |-> initial_position(geo.surface, dx, dy, dz)]
    /\ UNCHANGED <<gui, ga_vars>>

NextPlacement == DrawPosition

SpecPlacement == InitPlacement /\ [][NextPlacement]_vars

(***************************************************************************)
(* SurfaceAnalyzer._analyze_layers, heights in tenths of an Angstrom.      *)
(***************************************************************************)
MaxSurfaceAtoms == 3
\* z_tolerance = 0.3
z_tolerance == 3
ZValues == 0..5

\* the z coordinates of the atoms of a slab, by atom index
SlabHeights == UNION {[1..n -> ZValues] : n \in 1..MaxSurfaceAtoms}

Abs(x) == IF x < 0 THEN -x ELSE x

\* z_coords[np.argsort(z_coords)]: the values in ascending order
RECURSIVE sort_ascending(_)
sort_ascending(zs) ==
    IF zs = <<>> THEN <<>>
    ELSE LET rest == sort_ascending(Tail(zs))
             below == SelectSeq(rest, LAMBDA z : z <= Head(zs))
             above == SelectSeq(rest, LAMBDA z : z > Head(zs))
         IN  below \o <<Head(zs)>> \o above

\* sorted(layer_z_values, reverse=True)
sort_descending(zs) ==
    LET up == sort_ascending(zs)
    IN  [k \in DOMAIN up |-> up[Len(up) + 1 - k]]

\* the loop 'for z in sorted_z': z opens a layer unless it lies within the
\* tolerance of the height that opened an earlier one
RECURSIVE cluster(_, _)
cluster(sorted_z, layer_z_values) ==
    IF sorted_z = <<>> THEN layer_z_values
    ELSE LET z == Head(sorted_z)
             belongs_to_layer ==
                 \E k \in DOMAIN layer_z_values :
                    Abs(z - layer_z_values[k]) < z_tolerance
         IN  cluster(Tail(sorted_z),
                     IF belongs_to_layer THEN layer_z_values
                     ELSE Append(layer_z_values, z))

\* the atoms, by index from 0 in ascending order, within the tolerance of z_ref
layer_atoms(z_coords, z_ref) ==
    SelectSeq([i \in DOMAIN z_coords |-> i - 1],
              LAMBDA atom_idx : Abs(z_coords[atom_idx + 1] - z_ref) < z_tolerance)

\* _analyze_layers()
analyze_layers(z_coords) ==
    LET layer_z_values == sort_descending(cluster(sort_ascending(z_coords), <<>>))
    IN  [n_layers |-> Len(layer_z_values),
         layer_positions |-> layer_z_values,
         layers_list |->
            [k \in DOMAIN layer_z_values |->
                LET atoms == layer_atoms(z_coords, layer_z_values[k])
                IN  [layer_number |-> k - 1,
                     z_position |-> layer_z_values[k],
                     n_atoms |-> Len(atoms),
                     atom_indices |-> atoms]]]

(***************************************************************************)
(* The workflow around the GA: analysis, reference energies, GA, final     *)
(* optimization, as far as the fixed-atom masks.                           *)
(***************************************************************************)
\* the loop of _get_fixed_layer_indices over range(lo, hi): a Python list
\* takes an index i < 0 from its end and raises IndexError below -len
RECURSIVE extend_fixed(_, _, _, _)
extend_fixed(layers_info, i, hi, fixed) ==
    IF i >= hi THEN [raised |-> FALSE, indices |-> fixed]
    ELSE IF ~(i < Len(layers_info))
         THEN extend_fixed(layers_info, i + 1, hi, fixed)
         ELSE IF i < -Len(layers_info) THEN [raised |-> TRUE]
         ELSE LET k == IF i >= 0 THEN i + 1 ELSE Len(layers_info) + i + 1
              IN  extend_fixed(layers_info, i + 1, hi,
                               fixed \o layers_info[k].atom_indices)

\* ReferenceEnergiesWindow._get_fixed_layer_indices
reference_fixed_layer_indices(info, n_total_layers, n_fixed_layers) ==
    extend_fixed(info.layers_list, n_total_layers - n_fixed_layers,
                 n_total_layers, <<>>)

\* FinalOptimizationWindow._get_fixed_layer_indices
final_fixed_layer_indices(info, n_fixed_layers) ==
    extend_fixed(info.layers_list, info.n_layers - n_fixed_layers,
                 info.n_layers, <<>>)

\* the _info of the stand-in analyzer built by _on_ga_complete
surface_analyzer_dummy == [layers_list |-> <<>>, n_layers |-> 0]

\* a slab has been loaded into the analysis window
InitWorkflow ==
    /\ pc = "constructed"
    /\ population_size = 1
    /\ generations = 1
    /\ elite_size = 0
    /\ n_torsions = 0
    /\ calculator = "const"
    /\ surface_energy = 0
    /\ molecule_energy = 0
    /\ gen = 0
    /\ population = <<>>
    /\ heap = <<>>
    /\ fitness_history = <<>>
    /\ best_individual = None
    /\ best_energy = Inf
    /\ gen_log = <<>>
    /\ results = None
    /\ gui = GuiIdle
    /\ geo \in {[op |-> "none", z_coords |-> z] : z \in SlabHeights}

\* AnalysisWindow._analyze: SurfaceAnalyzer.analyze() on a slab
AnalyzeSurface ==
    /\ geo.op = "none"
    /\ geo' = [op |-> "analysis", z_coords |-> geo.z_coords,
               layers |-> analyze_layers(geo.z_coords)]
    /\ UNCHANGED <<gui, ga_vars>>

\* _go_to_reference_energies with the spinbox at n, then the relaxed
\* surface reference of _calculate_with_relaxation
ReferenceEnergies ==
    /\ geo.op = "analysis"
    /\ \E n \in 1..geo.layers.n_layers :
          geo' = [op |-> "reference", z_coords |-> geo.z_coords,
                  layers |-> geo.layers, n_fixed_layers |-> n,
                  reference_fixed |->
                      reference_fixed_layer_indices(geo.layers, geo.layers.n_layers, n)]
    /\ UNCHANGED <<gui, ga_vars>>

\* the GA stage ends with a best structure: _on_ga_complete opens the final
\* window with the stand-in analyzer
OnGaComplete ==
    /\ geo.op = "reference"
    /\ geo' = [op |-> "final_window", z_coords |-> geo.z_coords,
               layers |-> geo.layers, n_fixed_layers |-> geo.n_fixed_layers,
               reference_fixed |-> geo.reference_fixed,
               surface_analyzer |-> surface_analyzer_dummy,
               save_button |-> "disabled", optimized_structure |-> None]
    /\ UNCHANGED <<gui, ga_vars>>

\* _execute with 'Optimize final structure' checked, and _optimize_thread
OptimizeFinal ==
    /\ geo.op = "final_window"
    /\ LET r == final_fixed_layer_indices(geo.surface_analyzer, geo.n_fixed_layers)
       IN  geo' = IF r.raised
                  THEN [geo EXCEPT !.op = "optimized"] @@ [error |-> TRUE]
                  ELSE [geo EXCEPT !.op = "optimized",
                                   !.save_button = "normal",
                                   !.optimized_structure = Some(r.indices)]
                       @@ [error |-> FALSE]
    /\ UNCHANGED <<gui, ga_vars>>

NextWorkflow ==
    \/ AnalyzeSurface
    \/ ReferenceEnergies
    \/ OnGaComplete
    \/ OptimizeFinal

SpecWorkflow == InitWorkflow /\ [][NextWorkflow]_vars

(***************************************************************************)
(* _create_system on Atoms objects held in a store: self.surface and       *)
(* self.molecule are objects 1 and 2, every copy is a new object.          *)
(***************************************************************************)
MaxEvaluations == 2

atoms_alias(store, id) == [store |-> store, id |-> id]

\* ase Atoms.copy(): a new object with arrays of its own
atoms_copy(store, id) == [store |-> Append(store, store[id]), id |-> Len(store) + 1]

\* molecule_copy.translate(...) writes the positions of the object itself
translate_in_place(store, id, displacement) ==
    [store EXCEPT ![id] = translate(store[id], displacement)]

\* _apply_rotation ends with atoms.set_positions(...) on the object itself
rotate_in_place(store, id, euler_angles) ==
    [store EXCEPT ![id] = apply_rotation(store[id], euler_angles)]

\* _create_system(individual): [raised, store, system]
create_system_in_store(store, individual) ==
    LET surface_copy == atoms_copy(store, 1)
        molecule_copy == atoms_copy(surface_copy.store, 2)
        s2 == molecule_copy.store
        t == IF n_torsions > 0
             THEN apply_torsions(s2[molecule_copy.id], individual.torsions,
                                 ga_rotatable_bonds)
             ELSE [raised |-> FALSE]
    IN  IF t.raised THEN [raised |-> TRUE, store |-> s2]
        ELSE LET s3 == translate_in_place(s2, molecule_copy.id,
                           Vec3Sub(individual.position,
                                   get_center_of_mass(s2[molecule_copy.id])))
                 s4 == rotate_in_place(s3, molecule_copy.id, individual.orientation)
             IN  [raised |-> FALSE, store |-> s4,
                  \* surface_copy + molecule_copy: a new object again
                  system |-> [positions |-> s4[surface_copy.id].positions
                                              \o s4[molecule_copy.id].positions]]

\* the genomes handed to _create_system
EvaluatedGenomes ==
    {[position |-> p, orientation |-> o, torsions |-> [i \in 1..n_torsions |-> 0]] :
        p \in GenomePositions, o \in {<<0, 0, 0>>, <<90, 0, 0>>, <<0, 180, 90>>}}

\* a GeneticAlgorithm holding a surface and a molecule, nothing evaluated
InitEvaluation ==
    /\ pc = "constructed"
    /\ population_size = 1
    /\ generations = 1
    /\ elite_size = 0
    /\ n_torsions \in 0..MaxTorsions
    /\ calculator = "const"
    /\ surface_energy = 0
    /\ molecule_energy = 0
    /\ gen = 0
    /\ population = <<>>
    /\ heap = <<>>
    /\ fitness_history = <<>>
    /\ best_individual = None
    /\ best_energy = Inf
    /\ gen_log = <<>>
    /\ results = None
    /\ gui = GuiIdle
    /\ \E sf \in InitSurfaces, m \in Molecules :
          geo = [op |-> "none", calls |-> 0, surface |-> sf, molecule |-> m,
                 store |-> <<sf, m>>]

\* one call of _create_system; the copies are released when it returns
CreateSystemCall ==
    /\ geo.calls < MaxEvaluations
    /\ \E individual \in EvaluatedGenomes :
          LET r == create_system_in_store(geo.store, individual)
          IN  geo' = [op |-> "create_system", calls |-> geo.calls + 1,
                      surface |-> geo.surface, molecule |-> geo.molecule,
                      store |-> SubSeq(r.store, 1, 2),
                      individual |-> individual,
                      result |-> IF r.raised THEN [raised |-> TRUE]
                                 ELSE [raised |-> FALSE, system |-> r.system]]
    /\ UNCHANGED <<gui, ga_vars>>

NextEvaluation == CreateSystemCall

SpecEvaluation == InitEvaluation /\ [][NextEvaluation]_vars

(***************************************************************************)
(* Properties.                                                             *)
(***************************************************************************)

EnergiesOf(pop) == [i \in DOMAIN pop |-> Energy(pop[i])]

\* the k-th smallest value of a sequence of numbers, by counting
KthSmallest(es, k) ==
    CHOOSE e \in Range(es) :
        /\ Cardinality({j \in DOMAIN es : es[j] < e}) < k
        /\ k <= Cardinality({j \in DOMAIN es : es[j] <= e})

EliteCount == Min(elite_size, population_size)

\* a step of _evaluate_population, and one of a completed
\* _selection_crossover_mutation
EvaluateStep == pc = "evaluate" /\ pc' = "reproduce"
ReproduceStep == pc = "reproduce" /\ pc' \in {"evaluate", "results"}

\* the genomes an evaluate step finds without an energy
Unscored == {i \in DOMAIN population : population[i].energy = None}

\* C1: for population_size >= 1, generations >= 1 and any elite_size >= 0,
\* no step of run() raises, and when run() has returned, the result's
\* best_individual is set.
C1_RunReturnsBest ==
    (population_size >= 1 /\ generations >= 1) =>
        /\ pc # "raised"
        /\ pc = "done" => Val(results).best_individual # None

\* C2: with a calculator that fails on every structure, run() does not
\* raise, every entry of the history is the penalty, and the returned
\* best_energy is the penalty.
C2_AllFailingRunReturnsPenalty ==
    calculator = "fail" =>
        /\ pc # "raised"
        /\ \A k \in DOMAIN fitness_history : fitness_history[k] = Penalty
        /\ pc = "done" => Val(results).best_energy = Penalty

\* C3: while the best-so-far record is not replaced, the position,
\* orientation and torsions it holds do not change.
C3_BestGenesFrozen ==
    [][(best_individual # None /\ best_individual' = best_individual) =>
          Genes(Val(best_individual'), heap') = Genes(Val(best_individual), heap)]_vars

\* C4: after a reproduce step the first elite_size genomes have the genes
\* and the energy the elite_size lowest-energy genomes had when it began.
C4_ElitesUnchanged ==
    [][ReproduceStep =>
          \A i \in 1..EliteCount :
             /\ Genes(population'[i], heap')
                  = Genes(sort_by_energy(population)[i], heap)
             /\ population'[i].energy = sort_by_energy(population)[i].energy]_vars

\* C5: after a reproduce step the i-th genome, for i up to elite_size, has
\* its energy set, to the i-th lowest energy of the generation before.
C5_EliteEnergiesCarried ==
    [][ReproduceStep =>
          \A i \in 1..EliteCount :
             /\ population'[i].energy # None
             /\ Energy(population'[i]) = KthSmallest(EnergiesOf(population), i)]_vars

\* a reproduce step has carried elites over and bred at least one child
\* behind them, from a generation whose energies were not all equal
C5_Witness ==
    /\ gen >= 1
    /\ 1 <= elite_size /\ elite_size < population_size
    /\ Len(population) = population_size
    /\ population[1].energy # None
    /\ population[population_size].energy = None
    /\ \E k \in DOMAIN fitness_history : fitness_history[k] # fitness_history[1]

\* C6: no two genomes of the population, and no genome of the population
\* and the best-so-far record, refer to the same array.
C6_NoSharedArrays ==
    /\ \A i, j \in DOMAIN population :
          i # j => Addrs(population[i]) \cap Addrs(population[j]) = {}
    /\ best_individual # None =>
          \A i \in DOMAIN population :
             Addrs(population[i]) \cap Addrs(Val(best_individual)) = {}

\* C7: best_energy never rises; while it stays, the record stays; when it
\* falls, the record is the first genome of the evaluate step scored at the
\* new best_energy; and best_energy is the minimum of the history.
C7_BestIsMonotoneMinimum ==
    [][/\ best_energy' <= best_energy
       /\ best_energy' = best_energy => best_individual' = best_individual
       /\ best_energy' < best_energy =>
             /\ EvaluateStep
             /\ \E i \in Unscored :
                   /\ Energy(population'[i]) = best_energy'
                   /\ best_individual' = Some(population'[i])
                   /\ \A j \in Unscored : j < i => Energy(population'[j]) > best_energy'
       /\ fitness_history' # <<>> =>
             best_energy' = MinOfSeq(fitness_history')]_vars

\* a later generation has scored a child below the best of the first one
C7_Witness ==
    /\ Len(fitness_history) > population_size
    /\ best_energy < MinOfSeq(SubSeq(fitness_history, 1, population_size))
    /\ \E k \in population_size + 1 .. Len(fitness_history) :
          fitness_history[k] = best_energy

\* C8: an evaluate step scores exactly the genomes without an energy and
\* leaves the others as they are; a reproduce step carries the elite over
\* with the energies they had.
C8_ScoredAtMostOnce ==
    [][/\ EvaluateStep =>
             /\ \A i \in DOMAIN population :
                   population[i].energy # None => population'[i] = population[i]
             /\ \A i \in DOMAIN population' : population'[i].energy # None
             /\ Len(fitness_history') = Len(fitness_history) + Cardinality(Unscored)
       /\ ReproduceStep =>
             \A i \in 1..EliteCount :
                population'[i].energy = sort_by_energy(population)[i].energy]_vars

\* the second evaluate step has scored a child and skipped an elite
C8_Witness ==
    /\ pc = "reproduce"
    /\ gen = 1
    /\ Len(fitness_history) > population_size
    /\ Len(fitness_history) < 2 * population_size

\* C9: when the calculator returns E_total for the structure built for a
\* genome, the genome's energy, and its entry in the history, is
\* E_total - (surface_energy + molecule_energy).
C9_AdsorptionEnergyRecorded ==
    [][EvaluateStep =>
          \A i \in Unscored :
             LET s == create_system(population[i], heap)
                 r == IF s.raised THEN [raised |-> TRUE]
                      ELSE get_potential_energy(s.system)
                 k == Len(fitness_history)
                        + Cardinality({j \in Unscored : j <= i})
             IN  ~r.raised =>
                    /\ Energy(population'[i])
                         = r.energy - (surface_energy + molecule_energy)
                    /\ fitness_history'[k] = Energy(population'[i])]_vars

\* a genome holds an energy the calculator returned, with reference
\* energies that are not zero
C9_Witness ==
    /\ surface_energy + molecule_energy # 0
    /\ \E i \in DOMAIN population :
          /\ population[i].structure # None
          /\ population[i].energy # None
          /\ Energy(population[i]) # Penalty

\* C10: when run() returns with a best_individual, best_structure is the
\* structure cached on it when it was scored, and is not None.
C10_BestStructureReturned ==
    (pc = "done" /\ Val(results).best_individual # None) =>
        /\ Val(results).best_structure # None
        /\ Val(results).best_structure = Val(Val(results).best_individual).structure

\* C11: the reproduce step of a generation (sort, elitism, tournaments,
\* crossover, mutation) starts only in a state where every genome of the
\* population has its energy set, so no unscored genome is sorted or drawn.
C11_ReproduceAfterAllScored ==
    pc = "reproduce" => \A i \in DOMAIN population : population[i].energy # None

\* the second generation is about to reproduce, children of the first scored
C11_Witness ==
    /\ pc = "reproduce"
    /\ gen = 1
    /\ elite_size < population_size
    /\ Len(fitness_history) > population_size

\* C12: after initialization and after every completed reproduce step the
\* population holds exactly population_size genomes, for every
\* elite_size >= 0, elite_size >= population_size included.
C12_PopulationSizeFixed ==
    pc \in {"evaluate", "reproduce", "results", "done"} =>
        Len(population) = population_size

\* a reproduce step has run with more elites asked for than genomes exist
C12_Witness ==
    /\ gen >= 1
    /\ population_size >= 1
    /\ elite_size > population_size
    /\ Len(population) = population_size

AnglesInRange(ind, hp) ==
    /\ \A k \in DOMAIN hp[ind.orientation] : hp[ind.orientation][k] \in 0..359
    /\ \A k \in DOMAIN hp[ind.torsions] : hp[ind.torsions][k] \in 0..359

\* C13: in every reachable state every orientation and torsion angle of
\* every genome of the population and of the best-so-far record lies in
\* [0, 360), the parents of mutations included.
C13_AnglesWrapped ==
    /\ \A i \in DOMAIN population : AnglesInRange(population[i], heap)
    /\ best_individual # None => AnglesInRange(Val(best_individual), heap)

\* C14: crossover(parent1, parent2) returns a child whose position equals
\* parent1's, whose orientation equals parent2's, whose torsion i equals
\* parent1's or parent2's torsion i, with energy and structure unset, in
\* arrays of its own, and leaves both parents and their arrays unchanged.
C14_CrossoverInherits ==
    geo.op = "crossover" =>
        LET parent1 == population[1]
            parent2 == population[2]
            child == Genes(geo.child, heap)
        IN  /\ child[1] = geo.parent1[1]
            /\ child[2] = geo.parent2[2]
            /\ DOMAIN child[3] = 1..n_torsions
            /\ \A i \in 1..n_torsions :
                  child[3][i] \in {geo.parent1[3][i], geo.parent2[3][i]}
            /\ geo.child.energy = None
            /\ geo.child.structure = None
            /\ Addrs(geo.child) \cap (Addrs(parent1) \cup Addrs(parent2)) = {}
            /\ Genes(parent1, heap) = geo.parent1
            /\ Genes(parent2, heap) = geo.parent2
            /\ parent1.energy # None /\ parent2.energy # None

\* a child of two scored parents that differ in position, in orientation
\* and in a torsion
C14_Witness ==
    /\ geo.op = "crossover"
    /\ n_torsions >= 1
    /\ geo.parent1[1] # geo.parent2[1]
    /\ geo.parent1[2] # geo.parent2[2]
    /\ geo.parent1[3] # geo.parent2[3]

\* C15: in the end-to-end scenario (population size 4, two generations, no
\* rotatable bond, constant calculator, reference energies 0), whatever the
\* elite_size, run() completes, every energy of the history is the constant,
\* best_energy is the constant and the history has at most 8 entries.
C15_ConstantScenario ==
    ScenarioConfig =>
        /\ pc # "raised"
        /\ \A k \in DOMAIN fitness_history : fitness_history[k] = ConstEnergy
        /\ Len(fitness_history) <= 2 * 4
        /\ pc = "done" => Val(results).best_energy = ConstEnergy

\* C16: a configuration with population_size = 0 or generations <= 0 is
\* rejected at construction: run() never initializes a population,
\* evaluates it or produces a result for it.
C16_BadConfigRejected ==
    (population_size = 0 \/ generations <= 0) =>
        /\ pc \notin {"evaluate", "reproduce", "results", "done"}
        /\ population = <<>>
        /\ results = None

\* run() enters _evaluate_population: a generation starts
GenerationStarts == pc = "evaluate" /\ pc' \in {"reproduce", "raised"}

\* C17: once the Stop button's _stop_ga has run while the GA thread is
\* running, the generation loop starts no further generation: no evaluate
\* step begins after the stop request (stated for the configurations with
\* at least one genome and one generation).
C17_StopPreventsGenerations ==
    [][(/\ population_size >= 1
        /\ generations >= 1
        /\ gui.thread = "alive"
        /\ gui.stopped) => ~GenerationStarts]_vars

\* the structures the run holds: cached on a genome of the population or
\* of the best-so-far record, or returned as best_structure
CachedStructures ==
    {Val(population[i].structure) :
        i \in {j \in DOMAIN population : population[j].structure # None}}
    \cup (IF best_individual # None /\ Val(best_individual).structure # None
          THEN {Val(Val(best_individual).structure)} ELSE {})
    \cup (IF results # None /\ Val(results).best_structure # None
          THEN {Val(Val(results).best_structure)} ELSE {})

\* the atom at Python index k
AtomAt(system, k) == system.atoms[k + 1]

\* C18: in every assembled structure the surface atoms come first, in their
\* original order, followed by the molecule atoms, and the fixed set is
\* exactly the indices 0..len(surface)-1: every surface atom is fixed and
\* every molecule atom is free.
C18_SurfaceFirstAndFixed ==
    \A system \in CachedStructures :
        /\ Len(system.atoms) = Len(SurfaceAtoms) + Len(MoleculeAtoms)
        /\ \A k \in 0 .. Len(SurfaceAtoms) - 1 :
              AtomAt(system, k) = SurfaceAtoms[k + 1] /\ k \in system.fixed
        /\ \A k \in 0 .. Len(MoleculeAtoms) - 1 :
              /\ AtomAt(system, Len(SurfaceAtoms) + k) = MoleculeAtoms[k + 1]
              /\ Len(SurfaceAtoms) + k \notin system.fixed
        /\ system.fixed = 0 .. Len(SurfaceAtoms) - 1

\* a child bred in the first generation holds the structure it was scored on
C18_Witness ==
    /\ gen >= 1
    /\ elite_size < population_size
    /\ Len(population) = population_size
    /\ population[population_size].structure # None

\* number of atoms times a point, to compare with a sum of positions
TimesAtoms(atoms, point) == Vec3Scale(Len(atoms.positions), point)

\* mass-weighted sum of the positions, and total mass times a point
WeightedSum(atoms) ==
    Vec3Sum([i \in DOMAIN atoms.positions |->
                Vec3Scale(atoms.masses[i], atoms.positions[i])])
TimesMass(atoms, point) == Vec3Scale(SumSeq(atoms.masses), point)

EqualMasses(atoms) == \A i, j \in DOMAIN atoms.masses : atoms.masses[i] = atoms.masses[j]

Identity3 == <<(<<1, 0, 0>>), (<<0, 1, 0>>), (<<0, 0, 1>>)>>

\* C20: rotating by 0 degrees returns the original positions: _apply_rotation
\* with the angles (0, 0, 0) leaves every atom in place, and
\* _rotation_matrix_axis_angle with any unit axis and the angle 0 returns
\* the identity matrix.
C20_ZeroRotationIsIdentity ==
    /\ (geo.op = "apply_rotation" /\ geo.euler_angles = <<0, 0, 0>>) =>
          geo.result.positions = geo.atoms.positions
    /\ (geo.op = "rotation_matrix_axis_angle" /\ geo.angle = 0) =>
          /\ ~geo.result.raised
          /\ geo.result.R = Identity3

\* C21: apply_torsions called with a number of angles different from the
\* number of rotatable bonds returns the molecule with every atom position
\* unchanged and rotates about no bond.
C21_MismatchReturnsUnchanged ==
    (geo.op = "apply_torsions" /\ Len(geo.torsion_angles) # n_torsions) =>
        /\ ~geo.result.raised
        /\ geo.result.atoms = geo.molecule

\* a handler with a rotatable bond is given too many or too few angles
C21_Witness ==
    /\ geo.op = "apply_torsions"
    /\ n_torsions >= 1
    /\ Len(geo.torsion_angles) >= 1
    /\ Len(geo.torsion_angles) # n_torsions

\* C22: for a molecule with at least one rotatable bond, genomes carrying
\* as many torsion angles and a calculator that succeeds on every
\* structure, no genome is given the penalty energy: the penalty records
\* calculator failures only, never torsion application or assembly.
C22_PenaltyOnlyFromCalculator ==
    (n_torsions >= 1 /\ calculator = "const") =>
        /\ \A k \in DOMAIN fitness_history : fitness_history[k] # Penalty
        /\ \A i \in DOMAIN population :
              population[i].energy # None => Energy(population[i]) # Penalty

\* the atoms joined to bond_end by bonds that avoid bond_begin, found by
\* closing {bond_end} under the bonds once per atom
RECURSIVE ReachableAvoiding(_, _, _, _)
ReachableAvoiding(pairs, bond_begin, from, rounds) ==
    IF rounds = 0 THEN from
    ELSE ReachableAvoiding(pairs, bond_begin,
             from \cup {a \in {p[2] : p \in pairs} :
                           a # bond_begin /\ \E b \in from : <<b, a>> \in pairs},
             rounds - 1)

\* C24: for a bond (begin, end) the atoms _apply_single_torsion rotates are
\* exactly the atoms reachable from end in the bonding graph with begin
\* removed, end itself excluded; begin is never among them, nor any atom
\* joined to end only through begin.
C24_RotatesReachableFragment ==
    geo.op = "apply_single_torsion" =>
        /\ ~geo.result.raised
        /\ geo.selected =
              ReachableAvoiding(neighbor_list(geo.atoms), geo.bond_begin,
                                {geo.bond_end}, Len(geo.atoms.positions))
              \ {geo.bond_end}
        /\ geo.bond_begin \notin geo.selected

\* the lowest energy held by a genome of the population
PopulationMinimum == MinOfSeq(EnergiesOf(population))

\* C23: the 'Best' value logged for a generation equals the minimum energy
\* over the population of that generation, carried-over elites and newly
\* scored genomes together, for every elite_size with
\* 0 < elite_size < population_size.
C23_LoggedBestIsPopulationMinimum ==
    (/\ pc = "reproduce"
     /\ 0 < elite_size
     /\ elite_size < population_size) =>
        gen_log[Len(gen_log)].best_gen = PopulationMinimum

\* C25: the genome returned by a mutation differs from the parent's genes
\* before the call in at most one gene class, all its orientation and
\* torsion angles lie in [0, 360), and its energy and cached structure are
\* unset.
C25_MutationChangesOneClass ==
    geo.op = "mutate" =>
        LET child == Genes(geo.child, heap)
        IN  /\ Cardinality({k \in 1..3 : child[k] # geo.before[k]}) <= 1
            /\ AnglesInRange(geo.child, heap)
            /\ geo.child.energy = None
            /\ geo.child.structure = None

\* C26: the history is append-only, and a run of generations >= 1 that has
\* returned has appended exactly
\* population_size + (generations - 1) * max(population_size - elite_size, 0)
\* energies: all genomes in the first generation, the children only in
\* each later one.
C26_HistoryLength ==
    [][/\ Len(fitness_history') >= Len(fitness_history)
       /\ SubSeq(fitness_history', 1, Len(fitness_history)) = fitness_history
       /\ (pc' = "done" /\ generations >= 1) =>
             Len(fitness_history')
               = population_size
                 + (generations - 1) * MaxOf({population_size - elite_size, 0})]_vars

\* a run of two generations with elites and a child has returned
C26_Witness ==
    /\ pc = "done"
    /\ generations = 2
    /\ 0 < elite_size /\ elite_size < population_size
    /\ Len(fitness_history) = 2 * population_size - elite_size

\* C27: every initial genome's (x, y) lies within the disk of radius
\* search_radius around the surface's XY centre, and its z lies in
\* [surface_z_max + surface_buffer, surface_z_max + max_height].
C27_InitialPositionInDisk ==
    geo.op = "initialize_population" =>
        LET a == analyze_surface(geo.surface)
            dx == geo.position[1] - a.surface_center_xy[1]
            dy == geo.position[2] - a.surface_center_xy[2]
        IN  /\ dx * dx + dy * dy <= search_radius * search_radius
            /\ geo.position[3] >= a.surface_z_max + surface_buffer
            /\ geo.position[3] <= a.surface_z_max + max_height

\* the atoms of the bottom n layers of an analysis
BottomLayerAtoms(layers, n) ==
    UNION {Range(layers.layers_list[k].atom_indices) :
             k \in (layers.n_layers - n + 1) .. layers.n_layers}

\* C28: the layers reported by the surface analysis are a partition of the
\* surface atoms listed from top to bottom: every atom index appears in
\* the atom_indices of exactly one layer, once, and z_position decreases
\* strictly along the list.
C28_LayersPartition ==
    geo.op = "analysis" =>
        LET list == geo.layers.layers_list
        IN  /\ \A a \in 0 .. Len(geo.z_coords) - 1 :
                  Cardinality({<<k, j>> \in (DOMAIN list) \X (1..Len(geo.z_coords)) :
                                  /\ j \in DOMAIN list[k].atom_indices
                                  /\ list[k].atom_indices[j] = a}) = 1
            /\ \A k \in DOMAIN list :
                  k > 1 => list[k].z_position < list[k - 1].z_position

\* C29: with 1 <= n_fixed_layers <= n_layers, 'Optimize final structure'
\* runs the relaxation with exactly the atoms of the bottom n_fixed_layers
\* surface layers fixed, the set the reference stage fixed, and ends with
\* an optimized structure and the Save button enabled.
C29_FinalFixesBottomLayers ==
    geo.op = "optimized" =>
        /\ ~geo.error
        /\ geo.optimized_structure # None
        /\ Range(Val(geo.optimized_structure)) = Range(geo.reference_fixed.indices)
        /\ Range(Val(geo.optimized_structure))
              = BottomLayerAtoms(geo.layers, geo.n_fixed_layers)
        /\ geo.save_button = "normal"

\* C30: after any number of evaluations the GA's stored surface and
\* molecule are as they were given, and the structure built for a genome
\* is the surface followed by the given molecule placed by that genome's
\* genes, whatever was evaluated before.
C30_StoredStructuresUnchanged ==
    geo.op = "create_system" =>
        /\ geo.store[1] = geo.surface
        /\ geo.store[2] = geo.molecule
        /\ ~geo.result.raised =>
              geo.result.system.positions
                = geo.surface.positions
                  \o position_molecule(geo.molecule, geo.individual.position,
                                       geo.individual.orientation).positions

\* a second structure has been built, with the molecule moved away from
\* where the stored one lies
C30_Witness ==
    /\ geo.op = "create_system"
    /\ geo.calls = 2
    /\ ~geo.result.raised
    /\ geo.result.system.positions # geo.surface.positions \o geo.molecule.positions

====
